---- MODULE Spec2Model ----
(***************************************************************************)
(* The agnt bootstrap launcher (python/agnt/src/agnt/__init__.py):         *)
(* several launcher invocations (main) share one cache directory on one    *)
(* host.  Each invocation runs get_binary_path (cache check, download to   *)
(* a temporary file, rename, chmod) and then launches the binary.          *)
(* Every file-system call and the HTTP GET is one step, so the steps of    *)
(* different invocations interleave freely.                                *)
(***************************************************************************)
EXTENDS Integers, Sequences, FiniteSets, TLC

(* ---------------------------------------------------------------- bounds *)
NumProcs == 2
BodyLen == 2

Procs == 1..NumProcs

(* ------------------------------------------------------------- constants *)
REPO == "standardbeagle/agnt"
VERSION == "0.7.12"
BINARY_NAME == "agnt"

\* The hosts considered: what platform.system() and platform.machine() report.
Hosts ==
    { <<"Darwin", "arm64">>, <<"Linux", "x86_64">>, <<"Linux", "aarch64">>,
      <<"Windows", "AMD64">>, <<"FreeBSD", "amd64">>, <<"Linux", "riscv64">> }

\* Command lines given to the launcher (sys.argv[1:]).  Nothing reads
\* sys.argv before the launch, so the model draws it there.
ArgLists == {<<>>, <<"run", "claude">>}

\* Exit codes the launched binary may return.
ExitCodes == {0, 1, 3}

\* Permission bits of a file.
XBITS == {"S_IXUSR", "S_IXGRP", "S_IXOTH"}
TmpMode == {"S_IRUSR", "S_IWUSR"}
ReadBits == {"S_IRUSR", "S_IWUSR", "S_IRGRP", "S_IROTH"}

\* The response body of the release asset, a sequence of chunks.
Body == [i \in 1..BodyLen |-> i]
\* The content of a binary placed in the cache before any invocation started.
PriorContent == <<0>>

\* A path that names no file.  ino identifies who created a file:
\* 0 a file present before the invocations started, p the invocation p.
NoFile == [ino |-> 0 - 1, content |-> <<>>, mode |-> {}]
Exists(f) == f.ino >= 0
PriorFiles ==
    { [ino |-> 0, content |-> PriorContent, mode |-> m] :
        m \in {ReadBits \cup XBITS, ReadBits, {}} }

VARIABLES
    system,     \* platform.system() of the host
    machine,    \* platform.machine() of the host
    cache0,     \* the file at the canonical binary path before any invocation
    cache_dir,  \* whether the cache directory exists
    canon,      \* the file at the canonical binary path
    removed,    \* whether another program has removed the file at that path
    pc,         \* each invocation's position
    sys_argv,   \* each invocation's sys.argv
    cached,     \* what binary_path.exists() told the invocation
    http,       \* the URL each invocation has requested (<<>>: none)
    resp,       \* how the invocation's HTTP GET ended
    tmp,        \* each invocation's temporary file
    st_mode,    \* the mode read by binary_path.stat()
    binary_path,\* the path get_binary_path returned (<<>>: not returned)
    launched,   \* the argument vector handed to the binary (<<>>: not launched)
    returncode, \* the exit code of the spawned child (<<>>: none)
    status,     \* the launcher's exit status (<<>>: none)
    err         \* the error that ended the invocation

vars == <<system, machine, cache0, cache_dir, canon, removed, pc, sys_argv,
          cached, http, resp, tmp, st_mode, binary_path, launched,
          returncode, status, err>>

\* str.lower() on the names above.
Lower(s) ==
    CASE s = "Darwin"  -> "darwin"
      [] s = "Linux"   -> "linux"
      [] s = "Windows" -> "windows"
      [] s = "FreeBSD" -> "freebsd"
      [] s = "AMD64"   -> "amd64"
      [] OTHER         -> s

IsWindows == Lower(system) = "windows"

\* get_platform: the platform tag, or <<>> where the code raises RuntimeError.
get_platform ==
    LET sys == Lower(system) IN
    IF sys = "darwin" THEN <<"darwin">>
    ELSE IF sys = "linux" THEN <<"linux">>
    ELSE IF sys = "windows" THEN <<"windows">>
    ELSE <<>>

\* Variant of get_arch that treats an unknown machine as amd64.
get_arch_default ==
    LET m == Lower(machine) IN
    IF m \in {"arm64", "aarch64"} THEN <<"arm64">> ELSE <<"amd64">>

\* get_arch: the architecture tag, or <<>> where the code raises RuntimeError.
get_arch ==
    LET m == Lower(machine) IN
    IF m \in {"x86_64", "amd64"} THEN <<"amd64">>
    ELSE IF m \in {"arm64", "aarch64"} THEN <<"arm64">>
    ELSE <<>>

get_binary_name == IF IsWindows THEN "agnt.exe" ELSE "agnt"

\* get_cache_dir: the path of the cache directory (its components).
CacheDirPath ==
    LET base == IF IsWindows THEN "LOCALAPPDATA"
                ELSE IF Lower(system) = "darwin" THEN "Library/Caches"
                ELSE "XDG_CACHE_HOME"
    IN <<base, "agnt", VERSION>>

\* cache_dir / get_binary_name()
BinaryPath == CacheDirPath \o <<get_binary_name>>

\* get_download_url, defined where get_platform and get_arch succeed.
get_download_url ==
    LET plat == get_platform[1]
        arch == get_arch[1]
        ext == IF plat = "windows" THEN ".exe" ELSE ""
    IN <<"https://github.com/", REPO, "/releases/download/v", VERSION, "/",
         BINARY_NAME, "-", plat, "-", arch, ext>>

\* Whether the operating system lets the launcher run file f: the owner's
\* execute bit on POSIX, access to the file on Windows.
CanExecute(f) ==
    IF IsWindows THEN "S_IRUSR" \in f.mode ELSE "S_IXUSR" \in f.mode

Init ==
    /\ \E h \in Hosts : system = h[1] /\ machine = h[2]
    /\ cache0 \in {NoFile} \cup PriorFiles
    /\ canon = cache0
    /\ cache_dir = Exists(cache0)
    /\ removed = FALSE
    /\ pc = [p \in Procs |-> "start"]
    /\ sys_argv = [p \in Procs |-> <<>>]
    /\ cached = [p \in Procs |-> "unknown"]
    /\ http = [p \in Procs |-> <<>>]
    /\ resp = [p \in Procs |-> "none"]
    /\ tmp = [p \in Procs |-> NoFile]
    /\ st_mode = [p \in Procs |-> {}]
    /\ binary_path = [p \in Procs |-> <<>>]
    /\ launched = [p \in Procs |-> <<>>]
    /\ returncode = [p \in Procs |-> <<>>]
    /\ status = [p \in Procs |-> <<>>]
    /\ err = [p \in Procs |-> "none"]

\* The invocation ends with exit status code because of error e.
Exit(p, code, e) ==
    /\ pc' = [pc EXCEPT ![p] = "exited"]
    /\ status' = [status EXCEPT ![p] = <<code>>]
    /\ err' = [err EXCEPT ![p] = e]

Terminal == {"exited", "replaced", "killed"}

\* Variant of CheckCache that downloads again although the file is present.
CheckCacheRevalidate(p) ==
    /\ pc[p] = "start"
    /\ cache_dir' = TRUE
    /\ cached' = [cached EXCEPT ![p] = IF Exists(canon) THEN "present" ELSE "absent"]
    /\ pc' = [pc EXCEPT ![p] = "resolve"]
    /\ UNCHANGED <<system, machine, cache0, canon, removed, sys_argv, http, resp, tmp,
                   st_mode, binary_path, launched, returncode, status, err>>

\* main is entered; get_binary_path makes the cache directory and tests
\* binary_path.exists(): a hit returns the path, a miss goes on to download.
CheckCache(p) ==
    /\ pc[p] = "start"
    /\ cache_dir' = TRUE
    /\ IF Exists(canon)
       THEN /\ cached' = [cached EXCEPT ![p] = "present"]
            /\ binary_path' = [binary_path EXCEPT ![p] = BinaryPath]
            /\ pc' = [pc EXCEPT ![p] = "launch"]
       ELSE /\ cached' = [cached EXCEPT ![p] = "absent"]
            /\ pc' = [pc EXCEPT ![p] = "resolve"]
            /\ UNCHANGED binary_path
    /\ UNCHANGED <<system, machine, cache0, canon, removed, sys_argv, http, resp, tmp,
                   st_mode, launched, returncode, status, err>>

\* get_download_url: get_platform and get_arch raise RuntimeError, which
\* nothing catches, on an unsupported host: the interpreter exits with 1.
Resolve(p) ==
    /\ pc[p] = "resolve"
    /\ IF get_platform = <<>> THEN Exit(p, 1, "UnsupportedPlatform")
       ELSE IF get_arch = <<>> THEN Exit(p, 1, "UnsupportedArchitecture")
       ELSE /\ pc' = [pc EXCEPT ![p] = "get"]
            /\ UNCHANGED <<status, err>>
    /\ UNCHANGED <<system, machine, cache0, cache_dir, canon, removed, sys_argv,
                   cached, http, resp, tmp, st_mode, binary_path, launched,
                   returncode>>

\* Variant of HttpGet without response.raise_for_status().
HttpGetNoRaise(p) ==
    /\ pc[p] = "get"
    /\ http' = [http EXCEPT ![p] = get_download_url]
    /\ \E r \in {"ok", "status_error", "transport_error"} :
          /\ resp' = [resp EXCEPT ![p] = r]
          /\ IF r = "transport_error" THEN Exit(p, 1, "DownloadFailed")
             ELSE /\ pc' = [pc EXCEPT ![p] = "create"]
                  /\ UNCHANGED <<status, err>>
    /\ UNCHANGED <<system, machine, cache0, cache_dir, canon, removed, sys_argv,
                   cached, tmp, st_mode, binary_path, launched, returncode>>

\* client.get(url); response.raise_for_status(): a non-success status and a
\* transport error are both httpx.HTTPError, whose handler ends in sys.exit(1).
HttpGet(p) ==
    /\ pc[p] = "get"
    /\ http' = [http EXCEPT ![p] = get_download_url]
    /\ \E r \in {"ok", "status_error", "transport_error"} :
          /\ resp' = [resp EXCEPT ![p] = r]
          /\ IF r = "ok"
             THEN /\ pc' = [pc EXCEPT ![p] = "create"]
                  /\ UNCHANGED <<status, err>>
             ELSE Exit(p, 1, "DownloadFailed")
    /\ UNCHANGED <<system, machine, cache0, cache_dir, canon, removed, sys_argv,
                   cached, tmp, st_mode, binary_path, launched, returncode>>

\* tempfile.NamedTemporaryFile(delete=False, dir=cache_dir, suffix=".tmp"):
\* an empty file of mode 0600 under a name of its own.
CreateTmp(p) ==
    /\ pc[p] = "create"
    /\ tmp' = [tmp EXCEPT ![p] = [ino |-> p, content |-> <<>>, mode |-> TmpMode]]
    /\ pc' = [pc EXCEPT ![p] = "write"]
    /\ UNCHANGED <<system, machine, cache0, cache_dir, canon, removed, sys_argv,
                   cached, http, resp, st_mode, binary_path, launched,
                   returncode, status, err>>

\* Variant of WriteChunk that goes on to the rename after the first chunk.
WriteChunkEarly(p) ==
    /\ pc[p] = "write"
    /\ Len(tmp[p].content) < BodyLen
    /\ tmp' = [tmp EXCEPT ![p].content = Append(@, Body[Len(@) + 1])]
    /\ pc' = [pc EXCEPT ![p] = "rename"]
    /\ UNCHANGED <<system, machine, cache0, cache_dir, canon, removed, sys_argv,
                   cached, http, resp, st_mode, binary_path, launched,
                   returncode, status, err>>

\* tmp.write(response.content), one chunk reaching the file at a time; the
\* with block closes the file once the whole body is written.
WriteChunk(p) ==
    /\ pc[p] = "write"
    /\ Len(tmp[p].content) < BodyLen
    /\ tmp' = [tmp EXCEPT ![p].content = Append(@, Body[Len(@) + 1])]
    /\ pc' = [pc EXCEPT ![p] =
                IF Len(tmp[p].content) + 1 = BodyLen THEN "rename" ELSE "write"]
    /\ UNCHANGED <<system, machine, cache0, cache_dir, canon, removed, sys_argv,
                   cached, http, resp, st_mode, binary_path, launched,
                   returncode, status, err>>

\* tmp_path.rename(binary_path): os.rename replaces an existing file on
\* POSIX and raises FileExistsError, which nothing catches, on Windows.
Rename(p) ==
    /\ pc[p] = "rename"
    /\ IF IsWindows /\ Exists(canon)
       THEN /\ Exit(p, 1, "FileExistsError")
            /\ UNCHANGED <<canon, tmp, binary_path>>
       ELSE /\ canon' = tmp[p]
            /\ tmp' = [tmp EXCEPT ![p] = NoFile]
            /\ IF IsWindows
               THEN /\ pc' = [pc EXCEPT ![p] = "launch"]
                    /\ binary_path' = [binary_path EXCEPT ![p] = BinaryPath]
               ELSE /\ pc' = [pc EXCEPT ![p] = "stat"]
                    /\ UNCHANGED binary_path
            /\ UNCHANGED <<status, err>>
    /\ UNCHANGED <<system, machine, cache0, cache_dir, removed, sys_argv,
                   cached, http, resp, st_mode, launched, returncode>>

\* binary_path.stat().st_mode (non-Windows).
Stat(p) ==
    /\ pc[p] = "stat"
    /\ IF Exists(canon)
       THEN /\ st_mode' = [st_mode EXCEPT ![p] = canon.mode]
            /\ pc' = [pc EXCEPT ![p] = "chmod"]
            /\ UNCHANGED <<status, err>>
       ELSE /\ Exit(p, 1, "FileNotFoundError")
            /\ UNCHANGED st_mode
    /\ UNCHANGED <<system, machine, cache0, cache_dir, canon, removed, sys_argv,
                   cached, http, resp, tmp, binary_path, launched, returncode>>

\* Variant of Chmod that sets the execute bits without or-ing in st_mode.
ChmodOverwrite(p) ==
    /\ pc[p] = "chmod"
    /\ IF Exists(canon)
       THEN /\ canon' = [canon EXCEPT !.mode = {"S_IXUSR", "S_IXGRP", "S_IXOTH"}]
            /\ pc' = [pc EXCEPT ![p] = "launch"]
            /\ binary_path' = [binary_path EXCEPT ![p] = BinaryPath]
            /\ UNCHANGED <<status, err>>
       ELSE /\ Exit(p, 1, "FileNotFoundError")
            /\ UNCHANGED <<canon, binary_path>>
    /\ UNCHANGED <<system, machine, cache0, cache_dir, removed, sys_argv,
                   cached, http, resp, tmp, st_mode, launched, returncode>>

\* binary_path.chmod(st_mode | S_IXUSR | S_IXGRP | S_IXOTH), after which
\* get_binary_path returns the path.
Chmod(p) ==
    /\ pc[p] = "chmod"
    /\ IF Exists(canon)
       THEN /\ canon' = [canon EXCEPT !.mode = st_mode[p] \cup XBITS]
            /\ pc' = [pc EXCEPT ![p] = "launch"]
            /\ binary_path' = [binary_path EXCEPT ![p] = BinaryPath]
            /\ UNCHANGED <<status, err>>
       ELSE /\ Exit(p, 1, "FileNotFoundError")
            /\ UNCHANGED <<canon, binary_path>>
    /\ UNCHANGED <<system, machine, cache0, cache_dir, removed, sys_argv,
                   cached, http, resp, tmp, st_mode, launched, returncode>>

\* Variant of Launch that forwards sys.argv instead of sys.argv[1:].
LaunchWholeArgv(p) ==
    /\ pc[p] = "launch"
    /\ \E args \in ArgLists : sys_argv' = [sys_argv EXCEPT ![p] = <<"agnt">> \o args]
    /\ IF ~Exists(canon)
       THEN /\ Exit(p, 1, "BinaryNotFound")
            /\ UNCHANGED launched
       ELSE IF ~CanExecute(canon)
       THEN /\ Exit(p, 1, "BinaryNotExecutable")
            /\ UNCHANGED launched
       ELSE /\ launched' = [launched EXCEPT ![p] = <<binary_path[p]>> \o sys_argv'[p]]
            /\ pc' = [pc EXCEPT ![p] = IF IsWindows THEN "wait" ELSE "replaced"]
            /\ UNCHANGED <<status, err>>
    /\ UNCHANGED <<system, machine, cache0, cache_dir, canon, removed,
                   cached, http, resp, tmp, st_mode, binary_path, returncode>>

\* Variant of Launch whose handlers print and fall off the end of main (status 0).
LaunchNoExit(p) ==
    /\ pc[p] = "launch"
    /\ \E args \in ArgLists : sys_argv' = [sys_argv EXCEPT ![p] = <<"agnt">> \o args]
    /\ IF ~Exists(canon)
       THEN /\ Exit(p, 0, "BinaryNotFound")
            /\ UNCHANGED launched
       ELSE IF ~CanExecute(canon)
       THEN /\ Exit(p, 0, "BinaryNotExecutable")
            /\ UNCHANGED launched
       ELSE /\ launched' = [launched EXCEPT ![p] = <<binary_path[p]>> \o Tail(sys_argv'[p])]
            /\ pc' = [pc EXCEPT ![p] = IF IsWindows THEN "wait" ELSE "replaced"]
            /\ UNCHANGED <<status, err>>
    /\ UNCHANGED <<system, machine, cache0, cache_dir, canon, removed,
                   cached, http, resp, tmp, st_mode, binary_path, returncode>>

\* main, after get_binary_path returned: subprocess.run on Windows, os.execv
\* elsewhere, with [str(binary_path)] + sys.argv[1:].  A missing file raises
\* FileNotFoundError and a file the caller may not run PermissionError; both
\* handlers end in sys.exit(1).  A successful execv replaces the process.
Launch(p) ==
    /\ pc[p] = "launch"
    /\ \E args \in ArgLists : sys_argv' = [sys_argv EXCEPT ![p] = <<"agnt">> \o args]
    /\ IF ~Exists(canon)
       THEN /\ Exit(p, 1, "BinaryNotFound")
            /\ UNCHANGED launched
       ELSE IF ~CanExecute(canon)
       THEN /\ Exit(p, 1, "BinaryNotExecutable")
            /\ UNCHANGED launched
       ELSE /\ launched' = [launched EXCEPT ![p] = <<binary_path[p]>> \o Tail(sys_argv'[p])]
            /\ pc' = [pc EXCEPT ![p] = IF IsWindows THEN "wait" ELSE "replaced"]
            /\ UNCHANGED <<status, err>>
    /\ UNCHANGED <<system, machine, cache0, cache_dir, canon, removed,
                   cached, http, resp, tmp, st_mode, binary_path, returncode>>

\* Variant of WaitExit that turns every non-zero exit code into 1.
WaitExitFlattened(p) ==
    /\ pc[p] = "wait"
    /\ \E rc \in ExitCodes :
          /\ returncode' = [returncode EXCEPT ![p] = <<rc>>]
          /\ Exit(p, IF rc = 0 THEN 0 ELSE 1, "none")
    /\ UNCHANGED <<system, machine, cache0, cache_dir, canon, removed, sys_argv,
                   cached, http, resp, tmp, st_mode, binary_path, launched>>

\* Windows: subprocess.run returns once the child has finished, and
\* sys.exit(result.returncode) ends the launcher; SystemExit passes the
\* FileNotFoundError and PermissionError handlers.
WaitExit(p) ==
    /\ pc[p] = "wait"
    /\ \E rc \in ExitCodes :
          /\ returncode' = [returncode EXCEPT ![p] = <<rc>>]
          /\ Exit(p, rc, "none")
    /\ UNCHANGED <<system, machine, cache0, cache_dir, canon, removed, sys_argv,
                   cached, http, resp, tmp, st_mode, binary_path, launched>>

\* The invocation is interrupted (a signal, a power cut) wherever it stands;
\* nothing it has written is cleaned up.
Kill(p) ==
    /\ pc[p] \notin Terminal
    /\ pc' = [pc EXCEPT ![p] = "killed"]
    /\ UNCHANGED <<system, machine, cache0, cache_dir, canon, removed, sys_argv,
                   cached, http, resp, tmp, st_mode, binary_path, launched,
                   returncode, status, err>>

\* Another program removes the file at the canonical path: the case the
\* FileNotFoundError handler of main is written for.
ExternalRemove ==
    /\ Exists(canon)
    /\ canon' = NoFile
    /\ removed' = TRUE
    /\ UNCHANGED <<system, machine, cache0, cache_dir, pc, sys_argv, cached,
                   http, resp, tmp, st_mode, binary_path, launched, returncode,
                   status, err>>

Next ==
    \/ \E p \in Procs :
          \/ CheckCache(p)
          \/ Resolve(p)
          \/ HttpGet(p)
          \/ CreateTmp(p)
          \/ WriteChunk(p)
          \/ Rename(p)
          \/ Stat(p)
          \/ Chmod(p)
          \/ Launch(p)
          \/ WaitExit(p)
          \/ Kill(p)
    \/ ExternalRemove

Spec == Init /\ [][Next]_vars

(* ---------------------------------------------------------------- claims *)

Others(p) == Procs \ {p}
FailedGet == {"status_error", "transport_error"}

\* The host is one the launcher does not support, read off the raw names.
Unsupported ==
    \/ Lower(system) \notin {"darwin", "linux", "windows"}
    \/ Lower(machine) \notin {"x86_64", "amd64", "arm64", "aarch64"}

\* C1: under any interleaving of invocations, each of which may be interrupted
\* at any step, a file a launcher put at the canonical binary path holds the
\* complete response body; partial content exists only in temporary files.
C1_NoPartialFileAtCanonicalPath ==
    /\ Exists(canon) /\ canon.ino # 0 => canon.content = Body
    /\ \A p \in Procs : Exists(tmp[p]) => tmp[p].ino = p

C1_Witness ==
    \E p \in Procs : \E q \in Others(p) :
        /\ pc[p] = "killed"
        /\ Exists(tmp[p])
        /\ Len(tmp[p].content) > 0
        /\ Len(tmp[p].content) < BodyLen
        /\ Exists(canon)
        /\ canon.ino = q

\* C2 (as claimed): on a supported host no invocation that missed the cache
\* and downloaded ends with an error because another invocation renamed first.
C2_EveryRenameSucceeds ==
    \A p \in Procs : err[p] # "FileExistsError"

C3_Inv ==
    \A p \in Procs :
        resp[p] \in FailedGet =>
            /\ pc[p] = "exited"
            /\ status[p] = <<1>>
            /\ err[p] = "DownloadFailed"
            /\ binary_path[p] = <<>>
            /\ launched[p] = <<>>
            /\ ~Exists(tmp[p])
            /\ canon.ino # p
            /\ (\A q \in Others(p) : cached[q] = "unknown") => ~Exists(canon)

C3_Step ==
    \A p \in Procs :
        resp[p] = "none" /\ resp'[p] \in FailedGet => canon' = canon /\ tmp' = tmp

\* C3: an invocation that missed the cache and whose GET ended in a
\* non-success status or a transport error exits with status 1, never returns
\* from get_binary_path, never launches the binary and leaves the canonical
\* path as it was: with no other invocation at work no file exists there.
C3_FailedDownloadExits == []C3_Inv /\ [][C3_Step]_vars

C3_Witness ==
    \E p \in Procs :
        /\ resp[p] = "status_error"
        /\ pc[p] = "exited"
        /\ \A q \in Others(p) : cached[q] = "unknown"

C4_Inv ==
    \A p \in Procs :
        cached[p] = "present" =>
            /\ http[p] = <<>>
            /\ resp[p] = "none"
            /\ ~Exists(tmp[p])
            /\ canon.ino # p
            /\ binary_path[p] = BinaryPath

C4_Step ==
    \A p \in Procs :
        cached'[p] = "present" /\ pc'[p] # pc[p] =>
            canon' = canon /\ tmp' = tmp /\ http' = http

\* C4: an invocation that finds a file at the canonical path issues no HTTP
\* request, creates no temporary file, leaves the file's content and mode as
\* they are and returns the canonical path; so does every later invocation.
C4_CacheHitTouchesNothing == []C4_Inv /\ [][C4_Step]_vars

C4_Witness ==
    \E p \in Procs : \E q \in Others(p) :
        /\ cached[p] = "absent"
        /\ binary_path[p] = BinaryPath
        /\ cached[q] = "present"
        /\ canon.ino = p
        /\ launched[q] # <<>>

C5_SingleDownloadReturned(p) ==
    /\ pc[p] = "launch"
    /\ cached[p] = "absent"
    /\ ~removed
    /\ \A q \in Others(p) : pc[q] = "start"

\* C5: when a single invocation starts with an empty cache and the GET
\* succeeds, then as get_binary_path returns the file at the canonical path
\* exists, holds the whole body and, off Windows, has the three execute bits
\* set and the bits it had before.
C5_InstalledFileCompleteAndExecutable ==
    \A p \in Procs :
        C5_SingleDownloadReturned(p) =>
            /\ Exists(canon)
            /\ canon.content = Body
            /\ binary_path[p] = BinaryPath
            /\ ~IsWindows => canon.mode = TmpMode \cup XBITS

C5_Witness ==
    \E p \in Procs : C5_SingleDownloadReturned(p) /\ ~IsWindows

\* C6 (as claimed): on an unsupported host every invocation fails with
\* UnsupportedPlatform or UnsupportedArchitecture and status 1 and launches
\* nothing, whether or not a file is present at the cache path.
C6_UnsupportedHostNeverLaunches ==
    Unsupported =>
        \A p \in Procs :
            /\ launched[p] = <<>>
            /\ pc[p] = "exited" =>
                 /\ status[p] = <<1>>
                 /\ err[p] \in {"UnsupportedPlatform", "UnsupportedArchitecture"}

\* C6 (amended): on an unsupported host every invocation that finds no file
\* at the cache path fails with UnsupportedPlatform or UnsupportedArchitecture
\* and status 1, requests nothing and launches nothing.
C6_UnsupportedHostCacheMissFails ==
    Unsupported =>
        \A p \in Procs :
            cached[p] = "absent" =>
                /\ launched[p] = <<>>
                /\ http[p] = <<>>
                /\ pc[p] \in {"resolve", "exited", "killed"}
                /\ pc[p] = "exited" =>
                     /\ status[p] = <<1>>
                     /\ err[p] \in {"UnsupportedPlatform", "UnsupportedArchitecture"}

C6_Witness ==
    \E p \in Procs :
        /\ pc[p] = "exited"
        /\ err[p] = "UnsupportedArchitecture"
        /\ status[p] = <<1>>

C7_Step ==
    \A p \in Procs :
        pc[p] = "launch" /\ pc'[p] \notin {"launch", "killed"} =>
            /\ ~Exists(canon) =>
                 /\ pc'[p] = "exited"
                 /\ status'[p] = <<1>>
                 /\ err'[p] = "BinaryNotFound"
                 /\ launched'[p] = <<>>
            /\ Exists(canon) /\ ~CanExecute(canon) =>
                 /\ pc'[p] = "exited"
                 /\ status'[p] = <<1>>
                 /\ err'[p] = "BinaryNotExecutable"
                 /\ launched'[p] = <<>>

\* C7: when main launches and the file has vanished from the canonical path,
\* main exits with status 1 (BinaryNotFound); when the file may not be run,
\* main exits with status 1 (BinaryNotExecutable); the binary is not run.
C7_LaunchFailuresExitOne == [][C7_Step]_vars

C7_Witness ==
    \E p \in Procs : \E q \in Others(p) :
        /\ err[p] = "BinaryNotFound"
        /\ binary_path[p] = BinaryPath
        /\ err[q] = "BinaryNotExecutable"
        /\ binary_path[q] = BinaryPath

C8_Inv ==
    \A p \in Procs :
        launched[p] # <<>> =>
            /\ Len(launched[p]) = Len(sys_argv[p])
            /\ launched[p][1] = BinaryPath
            /\ \A i \in 2..Len(sys_argv[p]) : launched[p][i] = sys_argv[p][i]

C8_Step ==
    \A p \in Procs :
        /\ pc'[p] = "replaced" => ~IsWindows
        /\ pc[p] = "replaced" =>
             /\ pc'[p] = "replaced"
             /\ status'[p] = <<>>
             /\ launched'[p] = launched[p]

\* C8: the argument vector handed to the binary is the binary path followed
\* by the launcher's arguments, in order, none added, dropped or altered; off
\* Windows a successful launch replaces the process and no launcher step
\* follows.
C8_ArgumentsForwardedUnchanged == []C8_Inv /\ [][C8_Step]_vars

C8_Witness ==
    \E p \in Procs :
        /\ pc[p] = "replaced"
        /\ launched[p] = <<BinaryPath, "run", "claude">>

C10_CanonicalFileAlwaysExecutable ==
    ~IsWindows /\ ~Exists(cache0) /\ ~removed =>
        /\ Exists(canon) => XBITS \subseteq canon.mode
        /\ \A p \in Procs : err[p] # "BinaryNotExecutable"

\* The consequence alone: no invocation ends with the 'not executable' error.
C10_NoNotExecutableExit ==
    ~IsWindows /\ ~Exists(cache0) /\ ~removed =>
        \A p \in Procs : err[p] # "BinaryNotExecutable"

====
